---------------------------- MODULE Spec2Model ----------------------------
(***************************************************************************)
(* Model of drip's module management (src/drip.py): install_module, the   *)
(* recursive dependency installer, and remove_module.                      *)
(*                                                                         *)
(* The project manifest drip.toml is the variable drip_toml, the directory *)
(* .dp_modules is the variable dp_modules.  A recursive call of            *)
(* install_module is a frame of the sequence frames; every frame has its   *)
(* own `data` (the result of its own load_drip_toml) and its own `stack`   *)
(* list (the caller passes stack.copy()), while `visited` is one set       *)
(* shared by all frames of a top-level call.                               *)
(***************************************************************************)
EXTENDS Integers, Sequences, FiniteSets, TLC

VARIABLES
    drip_toml,    \* the persisted project manifest: [modules |-> name :> record]
    dp_modules,   \* .dp_modules: module name :> what was cloned into that directory
    frames,       \* call stack of install_module, root first
    visited,      \* the visited set of the running top-level install_module
    status,       \* "idle", "running", "returned", "exited", "removed", "not_installed"
    cmd,          \* the command being run, or the last one run
    out,          \* error lines printed by the current / last command
    today,        \* the date datetime.now() yields
    fetchCount,   \* per module name: git clone invocations of this command
    createCount,  \* per module name: ModuleRecords created by this command
    startFile,    \* drip_toml as it was when the current command started
    prevCmd,      \* the command run before cmd
    prevStatus,   \* how prevCmd ended
    ncmds,        \* number of commands started
    entered,      \* the module names the current walk entered, in that order
    fetchFailed   \* whether a git clone has failed since the project was made

vars == <<drip_toml, dp_modules, frames, visited, status, cmd, out, today,
          fetchCount, createCount, startFile, prevCmd, prevStatus, ncmds,
          entered, fetchFailed>>

----------------------------------------------------------------------------
(* Bounds *)

MaxCmds == 3
MaxDay == 2
MaxDepth == 6

(* Python's None *)
None == "None"

----------------------------------------------------------------------------
(* The locators of the modelled world.  A locator is the sequence of the   *)
(* pieces of its text; "/" is the path separator and ".git" the suffix.    *)

UA == <<"u", "/", "A", ".git">>
UB == <<"u", "/", "B", ".git">>
UC == <<"u", "/", "C", ".git">>
UD == <<"u", "/", "D", ".git">>
UD2 == <<"w", "/", "D">>
CA == <<"c", "/", "A">>
CB == <<"c", "/", "B">>
CC == <<"c", "/", "C">>
SD == <<"s", "/", "D">>

(* What `drip install <locator>` is run with. *)
RootLocs == {UA, UB, CA, SD}

(* What `drip remove <name>` is run with. *)
RemoveArgs == {"A", "B", "C", "D", "E"}

Dep(key, source, version) == [key |-> key, source |-> source, version |-> version]

(* The drip.toml a clone of a locator carries: has |-> whether the file    *)
(* exists, modules |-> the items of its `modules` table in document order. *)
(*   u/A.git -> B, C;  u/B.git -> D;  u/C.git -> D (other locator, v2)     *)
(*   c/A -> B;  c/B -> (N without source), C, D;  c/C -> A, D              *)
(*        (a cycle A -> B -> C -> A, with siblings after the closing edge; *)
(*         c/B declares u/D.git under the key "dlib")                      *)
(*   s/D -> "E" whose source is s/D itself (a self-dependency)             *)
(*   u/D.git has an empty drip.toml,  w/D has none.                        *)
Remote(loc) ==
    CASE loc = UA -> [has |-> TRUE, modules |-> <<Dep("B", UB, None), Dep("C", UC, None)>>]
      [] loc = UB -> [has |-> TRUE, modules |-> <<Dep("D", UD, None)>>]
      [] loc = UC -> [has |-> TRUE, modules |-> <<Dep("D", UD2, "v2")>>]
      [] loc = UD -> [has |-> TRUE, modules |-> <<>>]
      [] loc = CA -> [has |-> TRUE, modules |-> <<Dep("B", CB, None)>>]
      [] loc = CB -> [has |-> TRUE, modules |-> <<Dep("N", None, None), Dep("C", CC, "v1"),
                                                 Dep("dlib", UD, None)>>]
      [] loc = CC -> [has |-> TRUE, modules |-> <<Dep("A", CA, None), Dep("D", UD2, "v1")>>]
      [] loc = SD -> [has |-> TRUE, modules |-> <<Dep("E", SD, None)>>]
      [] OTHER -> [has |-> FALSE, modules |-> <<>>]

----------------------------------------------------------------------------
(* Pure helpers *)

RECURSIVE LastSep(_, _)
(* index of the last "/" among the first n pieces of p, 0 if there is none *)
LastSep(p, n) == IF n = 0 THEN 0 ELSE IF p[n] = "/" THEN n ELSE LastSep(p, n - 1)

(* os.path.basename *)
basename(p) == SubSeq(p, LastSep(p, Len(p)) + 1, Len(p))

(* str.replace(".git", ""): every occurrence is dropped, then the pieces   *)
(* are the text of the name                                                *)
RECURSIVE StripGit(_)
StripGit(p) ==
    IF p = <<>> THEN ""
    ELSE IF Head(p) = ".git" THEN StripGit(Tail(p))
    ELSE Head(p) \o StripGit(Tail(p))

module_name_of(repo_url) == StripGit(basename(repo_url))

RECURSIVE Join(_, _)
(* sep.join(s) *)
Join(s, sep) ==
    IF s = <<>> THEN ""
    ELSE IF Len(s) = 1 THEN s[1]
    ELSE s[1] \o sep \o Join(Tail(s), sep)

InSeq(x, s) == \E k \in 1..Len(s) : s[k] = x

(* the line run_shell prints when the command fails *)
CloneErrorLine == "Error executing command: git clone"

(* the message without the repeated name *)
CycleMessage_StackOnly(stack, module_name) ==
    "Error: Circular dependency detected: " \o Join(stack, " -> ")

CycleMessage(stack, module_name) ==
    "Error: Circular dependency detected: " \o Join(stack \o <<module_name>>, " -> ")

(* the early returns without the visited test *)
Arrival_NoVisited(module_name, vis, stack) ==
    IF InSeq(module_name, stack) THEN "cycle" ELSE "new"

(* no early return at all *)
Arrival_AlwaysNew(module_name, vis, stack) == "new"

(* the visited test placed before the test of the stack *)
Arrival_VisitedFirst(module_name, vis, stack) ==
    IF module_name \in vis THEN "visited"
    ELSE IF InSeq(module_name, stack) THEN "cycle"
    ELSE "new"


(* The two early returns of install_module: "cycle", "visited" or "new" *)
Arrival(module_name, vis, stack) ==
    IF InSeq(module_name, stack) THEN "cycle"
    ELSE IF module_name \in vis THEN "visited"
    ELSE "new"

(* The ModuleRecord install_module creates *)
NewRecord(repo_url, version, date) ==
    [source |-> repo_url,
     version |-> IF version = None THEN "main" ELSE version,
     installed |-> date,
     dependencies |-> <<>>]

(* data["modules"][name] = rec *)
SetModule(data, name, rec) ==
    [modules |-> [n \in DOMAIN data.modules \cup {name} |->
                     IF n = name THEN rec ELSE data.modules[n]]]

(* the record written whether or not the name has one *)
EnsureRecord_Overwrite(data, name, repo_url, version, date) ==
    SetModule(data, name, NewRecord(repo_url, version, date))

(* if module_name not in data["modules"]: data["modules"][module_name] = {...} *)
EnsureRecord(data, name, repo_url, version, date) ==
    IF name \in DOMAIN data.modules THEN data
    ELSE SetModule(data, name, NewRecord(repo_url, version, date))

(* if dep_name not in ...["dependencies"]: ...["dependencies"].append(dep_name) *)
AppendDep(data, name, dep_name) ==
    IF InSeq(dep_name, data.modules[name].dependencies) THEN data
    ELSE SetModule(data, name,
             [data.modules[name] EXCEPT !.dependencies = Append(@, dep_name)])

(* list.remove(x): drops the first occurrence of x *)
RECURSIVE ListRemove(_, _)
ListRemove(s, x) ==
    IF s = <<>> THEN <<>>
    ELSE IF Head(s) = x THEN Tail(s)
    ELSE <<Head(s)>> \o ListRemove(Tail(s), x)

(* os.path.exists(target_dir) *)
TargetExists(dirs, module_name) == module_name \in DOMAIN dirs

RECURSIVE Reverse(_)
Reverse(s) == IF s = <<>> THEN <<>> ELSE Append(Reverse(Tail(s)), Head(s))

(* the items of the table, last first *)
Items_Reversed(module_data) == Reverse(module_data.modules)

(* module_data.get("modules", {}).items(): the items in document order *)
Items(module_data) == module_data.modules

(* the directory git clone makes *)
Clone(repo_url, version) == [source |-> repo_url, branch |-> version]

(* <target_dir>/drip.toml of an installed module *)
ModuleDrip(name) == Remote(dp_modules[name].source)

Frame(repo_url, version, stack) ==
    [repo_url |-> repo_url, version |-> version, module_name |-> module_name_of(repo_url),
     stack |-> stack, data |-> [modules |-> <<>>], deps |-> <<>>, i |-> 1, pc |-> "enter"]

Top == frames[Len(frames)]
Front(s) == SubSeq(s, 1, Len(s) - 1)

ZeroCount == [n \in {} |-> 0]
Count(c, n) == IF n \in DOMAIN c THEN c[n] ELSE 0
Incr(c, n) == [m \in DOMAIN c \cup {n} |-> IF m = n THEN Count(c, n) + 1 ELSE c[m]]

(* the status after the top frame returned *)
AfterReturn == IF Len(frames) = 1 THEN "returned" ELSE "running"

----------------------------------------------------------------------------
Init ==
    /\ drip_toml = [modules |-> <<>>]
    /\ dp_modules = <<>>
    /\ frames = <<>>
    /\ visited = {}
    /\ status = "idle"
    /\ cmd = [op |-> "none", arg |-> None]
    /\ out = <<>>
    /\ today = 1
    /\ fetchCount = ZeroCount
    /\ createCount = ZeroCount
    /\ startFile = [modules |-> <<>>]
    /\ prevCmd = [op |-> "none", arg |-> None]
    /\ prevStatus = "idle"
    /\ ncmds = 0
    /\ entered = <<>>
    /\ fetchFailed = FALSE

(* a new command starts: the bookkeeping common to install and remove *)
Begin(op, arg) ==
    /\ status # "running"
    /\ ncmds < MaxCmds
    /\ ncmds' = ncmds + 1
    /\ prevCmd' = cmd
    /\ prevStatus' = status
    /\ cmd' = [op |-> op, arg |-> arg]
    /\ startFile' = drip_toml
    /\ fetchCount' = ZeroCount
    /\ createCount' = ZeroCount
    /\ entered' = <<>>

(* main: `drip install <locator>` calls install_module(sys.argv[2]) *)
StartInstall(loc) ==
    /\ Begin("install", loc)
    /\ frames' = <<Frame(loc, None, <<>>)>>
    /\ visited' = {}
    /\ status' = "running"
    /\ out' = <<>>
    /\ UNCHANGED <<drip_toml, dp_modules, today, fetchFailed>>

(* the cycle error ends the whole install *)
EnterCycle_Abort ==
    /\ status = "running"
    /\ Top.pc = "enter"
    /\ Arrival(Top.module_name, visited, Top.stack) = "cycle"
    /\ out' = Append(out, CycleMessage(Top.stack, Top.module_name))
    /\ frames' = <<>>
    /\ status' = "exited"
    /\ UNCHANGED <<drip_toml, dp_modules, visited, cmd, today, fetchCount,
                   createCount, startFile, prevCmd, prevStatus, ncmds, entered,
                   fetchFailed>>


(* install_module arrives at a name on its stack: report and return *)
EnterCycle ==
    /\ status = "running"
    /\ Top.pc = "enter"
    /\ Arrival(Top.module_name, visited, Top.stack) = "cycle"
    /\ out' = Append(out, CycleMessage(Top.stack, Top.module_name))
    /\ frames' = Front(frames)
    /\ status' = AfterReturn
    /\ UNCHANGED <<drip_toml, dp_modules, visited, cmd, today, fetchCount,
                   createCount, startFile, prevCmd, prevStatus, ncmds, entered,
                   fetchFailed>>

(* install_module arrives at a visited name: return *)
EnterVisited ==
    /\ status = "running"
    /\ Top.pc = "enter"
    /\ Arrival(Top.module_name, visited, Top.stack) = "visited"
    /\ frames' = Front(frames)
    /\ status' = AfterReturn
    /\ UNCHANGED <<drip_toml, dp_modules, visited, cmd, out, today, fetchCount,
                   createCount, startFile, prevCmd, prevStatus, ncmds, entered,
                   fetchFailed>>

(* the rest of install_module up to the dependency loop, the clone having *)
(* succeeded or the directory being there already                          *)
EnterNew ==
    /\ status = "running"
    /\ Top.pc = "enter"
    /\ Arrival(Top.module_name, visited, Top.stack) = "new"
    /\ LET f == Top
           name == f.module_name
           exists == TargetExists(dp_modules, name)
           dirs == IF exists THEN dp_modules
                   ELSE [n \in DOMAIN dp_modules \cup {name} |->
                            IF n = name THEN Clone(f.repo_url, f.version) ELSE dp_modules[n]]
           data == EnsureRecord(drip_toml, name, f.repo_url, f.version, today)
           md == Remote(dirs[name].source)
       IN /\ visited' = visited \cup {name}
          /\ entered' = Append(entered, name)
          /\ dp_modules' = dirs
          /\ fetchCount' = IF exists THEN fetchCount ELSE Incr(fetchCount, name)
          /\ createCount' = IF name \in DOMAIN drip_toml.modules THEN createCount
                            ELSE Incr(createCount, name)
          /\ drip_toml' = data
          /\ IF md.has
             THEN /\ frames' = [frames EXCEPT ![Len(frames)] =
                        [f EXCEPT !.stack = Append(f.stack, name), !.data = data,
                                  !.deps = Items(md), !.i = 1, !.pc = "loop"]]
                  /\ status' = status
             ELSE /\ frames' = Front(frames)
                  /\ status' = AfterReturn
    /\ UNCHANGED <<cmd, out, today, startFile, prevCmd, prevStatus, ncmds, fetchFailed>>

(* the failed clone reported to the caller, which goes on *)
FetchFails_ReturnToCaller ==
    /\ status = "running"
    /\ Top.pc = "enter"
    /\ Arrival(Top.module_name, visited, Top.stack) = "new"
    /\ ~TargetExists(dp_modules, Top.module_name)
    /\ visited' = visited \cup {Top.module_name}
    /\ entered' = Append(entered, Top.module_name)
    /\ fetchFailed' = TRUE
    /\ fetchCount' = Incr(fetchCount, Top.module_name)
    /\ out' = Append(out, CloneErrorLine)
    /\ frames' = Front(frames)
    /\ status' = AfterReturn
    /\ UNCHANGED <<drip_toml, dp_modules, cmd, today, createCount, startFile,
                   prevCmd, prevStatus, ncmds>>


(* git clone fails: run_shell prints the error and calls sys.exit(1) *)
FetchFails ==
    /\ status = "running"
    /\ Top.pc = "enter"
    /\ Arrival(Top.module_name, visited, Top.stack) = "new"
    /\ ~TargetExists(dp_modules, Top.module_name)
    /\ visited' = visited \cup {Top.module_name}
    /\ entered' = Append(entered, Top.module_name)
    /\ fetchFailed' = TRUE
    /\ fetchCount' = Incr(fetchCount, Top.module_name)
    /\ out' = Append(out, CloneErrorLine)
    /\ frames' = <<>>
    /\ status' = "exited"
    /\ UNCHANGED <<drip_toml, dp_modules, cmd, today, createCount, startFile,
                   prevCmd, prevStatus, ncmds>>

(* one turn of `for dep_name, dep_info in deps.items()` up to the call, or *)
(* the end of the loop: save, stack.pop(), return.  Calls nest at most     *)
(* MaxDepth deep.                                                          *)
Loop ==
    /\ status = "running"
    /\ Top.pc = "loop"
    /\ (Top.i <= Len(Top.deps) /\ Top.deps[Top.i].source # None) => Len(frames) < MaxDepth
    /\ LET f == Top IN
       IF f.i > Len(f.deps)
       THEN /\ drip_toml' = f.data
            /\ frames' = Front(frames)
            /\ status' = AfterReturn
       ELSE /\ drip_toml' = drip_toml
            /\ status' = status
            /\ IF f.deps[f.i].source # None
               THEN frames' = Append([frames EXCEPT ![Len(frames)].pc = "called"],
                                     Frame(f.deps[f.i].source, f.deps[f.i].version, f.stack))
               ELSE frames' = [frames EXCEPT ![Len(frames)].i = f.i + 1]
    /\ UNCHANGED <<dp_modules, visited, cmd, out, today, fetchCount, createCount,
                   startFile, prevCmd, prevStatus, ncmds, entered, fetchFailed>>

(* the recursive call returned: record dep_name, next turn of the loop *)
AfterCall ==
    /\ status = "running"
    /\ Top.pc = "called"
    /\ LET f == Top IN
       frames' = [frames EXCEPT ![Len(frames)] =
                    [f EXCEPT !.data = AppendDep(f.data, f.module_name, f.deps[f.i].key),
                              !.i = f.i + 1, !.pc = "loop"]]
    /\ UNCHANGED <<drip_toml, dp_modules, visited, status, cmd, out, today, fetchCount,
                   createCount, startFile, prevCmd, prevStatus, ncmds, entered,
                   fetchFailed>>

(* the records that list the name deleted with it *)
Scrub_Dependents(data, module_name) ==
    [modules |-> [n \in {m \in DOMAIN data.modules \ {module_name} :
                            ~InSeq(module_name, data.modules[m].dependencies)} |->
                     data.modules[n]]]


(* the record deleted, the dependencies lists left alone *)
Scrub_RecordOnly(data, module_name) ==
    [modules |-> [n \in DOMAIN data.modules \ {module_name} |-> data.modules[n]]]

(* the manifest remove_module saves *)
Scrub(data, module_name) ==
    [modules |-> [n \in DOMAIN data.modules \ {module_name} |->
        [data.modules[n] EXCEPT !.dependencies = ListRemove(@, module_name)]]]

(* remove_module without the test of the directory *)
remove_module_NoCheck(module_name) ==
    /\ Begin("remove", module_name)
    /\ dp_modules' = [n \in DOMAIN dp_modules \ {module_name} |-> dp_modules[n]]
    /\ drip_toml' = Scrub(drip_toml, module_name)
    /\ status' = "removed"
    /\ out' = <<>>
    /\ UNCHANGED <<frames, visited, today, fetchFailed>>

(* `drip remove <name>`: remove_module(sys.argv[2]) *)
remove_module(module_name) ==
    /\ Begin("remove", module_name)
    /\ IF ~TargetExists(dp_modules, module_name)
       THEN /\ status' = "not_installed"
            /\ out' = <<"Module '" \o module_name \o "' is not installed.">>
            /\ UNCHANGED <<drip_toml, dp_modules>>
       ELSE /\ dp_modules' = [n \in DOMAIN dp_modules \ {module_name} |-> dp_modules[n]]
            /\ drip_toml' = Scrub(drip_toml, module_name)
            /\ status' = "removed"
            /\ out' = <<>>
    /\ UNCHANGED <<frames, visited, today, fetchFailed>>

(* the calendar *)
Tick ==
    /\ today < MaxDay
    /\ today' = today + 1
    /\ UNCHANGED <<drip_toml, dp_modules, frames, visited, status, cmd, out, fetchCount,
                   createCount, startFile, prevCmd, prevStatus, ncmds, entered,
                   fetchFailed>>

Walk == EnterCycle \/ EnterVisited \/ EnterNew \/ FetchFails \/ Loop \/ AfterCall

Next ==
    \/ \E loc \in RootLocs : StartInstall(loc)
    \/ EnterCycle
    \/ EnterVisited
    \/ EnterNew
    \/ FetchFails
    \/ Loop
    \/ AfterCall
    \/ \E name \in RemoveArgs : remove_module(name)
    \/ Tick

Spec == Init /\ [][Next]_vars

(* the walk is a running program: it takes its next step *)
FairSpec == Spec /\ WF_vars(Walk)

TypeOK ==
    /\ status \in {"idle", "running", "returned", "exited", "removed", "not_installed"}
    /\ today \in 1..MaxDay
    /\ ncmds \in 0..MaxCmds
    /\ (status = "running") = (frames # <<>>)

----------------------------------------------------------------------------
(* Notions the properties are stated with *)

Modules == drip_toml.modules
Recorded(n) == n \in DOMAIN drip_toml.modules
Deps(data, n) == {data.modules[n].dependencies[k] : k \in 1..Len(data.modules[n].dependencies)}

(* a top-level install_module returned, and printed no error *)
InstallSucceeded == status = "returned" /\ out = <<>>

(* the module names a module's own drip.toml declares with a source *)
Declared(n) ==
    {module_name_of(ModuleDrip(n).modules[k].source) :
        k \in {j \in 1..Len(ModuleDrip(n).modules) : ModuleDrip(n).modules[j].source # None}}

(* the names of the calls that enclose the top one, root first *)
CallPath == [k \in 1..(Len(frames) - 1) |-> frames[k].module_name]

(* a step of the running walk, as opposed to the calendar's *)
WalkStep == status = "running" /\ frames' # frames

----------------------------------------------------------------------------
(* C1: after a top-level install that ended without reporting a failure,   *)
(* every name in a dependencies list of the persisted manifest is a key of *)
(* its modules table.                                                      *)
C1_ReferentialIntegrity ==
    InstallSucceeded => \A n \in DOMAIN Modules : Deps(drip_toml, n) \subseteq DOMAIN Modules

(* C2: after an install on an acyclic graph with every fetch succeeding,   *)
(* every module the walk reached has a record in the persisted manifest,   *)
(* and its dependencies list holds exactly the modules it declares.        *)
C2_DependenciesPopulated ==
    InstallSucceeded =>
        \A n \in visited : Recorded(n) /\ Deps(drip_toml, n) = Declared(n)

(* C3: a record this invocation created and persisted is still in the      *)
(* persisted manifest after every later step of the invocation.            *)
C3_Durability ==
    [][status = "running" =>
         \A n \in DOMAIN Modules :
             Count(createCount, n) > 0 => n \in DOMAIN drip_toml'.modules]_vars

(* C4: within one top-level install, git clone runs at most once for a     *)
(* module name and its record is created at most once, and an arrival at a *)
(* visited name returns without a clone and without a write of the         *)
(* manifest.                                                               *)
C4_SingleFetch ==
    /\ [](\A n \in DOMAIN fetchCount \cup DOMAIN createCount :
              Count(fetchCount, n) <= 1 /\ Count(createCount, n) <= 1)
    /\ [][(WalkStep /\ Top.pc = "enter" /\ Top.module_name \in visited) =>
              /\ frames' = Front(frames)
              /\ UNCHANGED <<drip_toml, dp_modules, fetchCount, createCount>>]_vars

(* the diamond was walked: D was reached through B and again through C *)
C4_Witness ==
    /\ status = "returned"
    /\ cmd.arg = UA
    /\ visited = {"A", "B", "C", "D"}
    /\ dp_modules["B"].source = UB
    /\ dp_modules["C"].source = UC
    /\ Count(fetchCount, "D") = 1
    /\ Count(createCount, "D") = 1

(* C5: an install that returned, run again right away, leaves the          *)
(* persisted manifest as the first run left it and clones nothing.         *)
C5_Idempotence ==
    (status = "returned" /\ prevStatus = "returned" /\ prevCmd = cmd) =>
        /\ drip_toml = startFile
        /\ fetchCount = ZeroCount

(* the diamond installed twice, the second time on a later day *)
C5_Witness ==
    /\ status = "returned"
    /\ prevStatus = "returned"
    /\ prevCmd = cmd
    /\ cmd.arg = UA
    /\ "A" \in DOMAIN Modules
    /\ Modules["A"].dependencies = <<"B", "C">>
    /\ Modules["A"].installed < today

(* C6: an arrival at a name that is on the path of enclosing calls prints  *)
(* the cycle error with that path followed by the name, joined by " -> ",  *)
(* and returns without a clone, a walk or a write.                         *)
C6_CycleReport ==
    [][(WalkStep /\ Top.pc = "enter" /\ InSeq(Top.module_name, CallPath)) =>
          /\ out' = Append(out, "Error: Circular dependency detected: "
                                   \o Join(Append(CallPath, Top.module_name), " -> "))
          /\ (CallPath = <<"A", "B", "C">> /\ Top.module_name = "A" =>
                 out'[Len(out')] = "Error: Circular dependency detected: A -> B -> C -> A")
          /\ frames' = Front(frames)
          /\ UNCHANGED <<drip_toml, dp_modules, visited, fetchCount, createCount>>]_vars

(* installing c/A (A -> B -> C -> A) on a fresh project reported the cycle *)
C6_Witness ==
    /\ status = "returned"
    /\ cmd.arg = CA
    /\ startFile.modules = <<>>
    /\ out = <<"Error: Circular dependency detected: A -> B -> C -> A">>
    /\ \A n \in {"A", "B", "C"} : Count(fetchCount, n) = 1

(* C7: a top-level install, once started, ends. *)
C7_Termination == (status = "running") ~> (status \in {"returned", "exited"})

(* installs of the cycle and of the self-dependency have returned *)
C7_Witness ==
    /\ status = "returned"
    /\ cmd.arg = SD
    /\ prevStatus = "returned"
    /\ prevCmd.arg = CA
    /\ out = <<"Error: Circular dependency detected: D -> D">>

(* C8: A declares B then C, B is installed and the clone of C fails: the   *)
(* persisted record of A then lists exactly B, and C has no record.        *)
C8_FetchFailureIsolation ==
    (/\ status = "exited"
     /\ cmd.arg = UA
     /\ {"A", "B"} \subseteq DOMAIN dp_modules
     /\ dp_modules["A"].source = UA
     /\ dp_modules["B"].source = UB
     /\ {"A", "B", "C"} \subseteq visited
     /\ "C" \notin DOMAIN dp_modules)
    => /\ "A" \in DOMAIN Modules
       /\ Modules["A"].dependencies = <<"B">>
       /\ "C" \notin DOMAIN Modules

(* s with every occurrence of x dropped *)
Without(s, x) == SelectSeq(s, LAMBDA y : y # x)

(* C9: a remove of an installed module leaves no directory and no record   *)
(* of it and no dependencies list naming it; the other records keep their  *)
(* other fields and the other entries of their lists, in order.            *)
C9_ReverseEdgeCleanup ==
    [][(ncmds' = ncmds + 1 /\ cmd'.op = "remove" /\ cmd'.arg \in DOMAIN dp_modules) =>
          /\ status' = "removed"
          /\ cmd'.arg \notin DOMAIN dp_modules'
          /\ DOMAIN drip_toml'.modules = DOMAIN Modules \ {cmd'.arg}
          /\ \A n \in DOMAIN drip_toml'.modules :
                /\ ~InSeq(cmd'.arg, drip_toml'.modules[n].dependencies)
                /\ drip_toml'.modules[n] =
                      [Modules[n] EXCEPT !.dependencies = Without(@, cmd'.arg)]]_vars

(* D was removed while B's record listed it *)
C9_Witness ==
    /\ status = "removed"
    /\ cmd.arg = "D"
    /\ "B" \in DOMAIN startFile.modules
    /\ startFile.modules["B"].dependencies = <<"D">>
    /\ "B" \in DOMAIN Modules
    /\ Modules["B"].dependencies = <<>>
    /\ "D" \notin DOMAIN dp_modules

(* C10: a remove of a name without a directory reports that it is not      *)
(* installed and changes neither the persisted manifest nor .dp_modules.   *)
C10_RemoveAbsentNoOp ==
    [][(ncmds' = ncmds + 1 /\ cmd'.op = "remove" /\ cmd'.arg \notin DOMAIN dp_modules) =>
          /\ status' = "not_installed"
          /\ out' = <<"Module '" \o cmd'.arg \o "' is not installed.">>
          /\ UNCHANGED <<drip_toml, dp_modules>>]_vars

(* E was asked to be removed: no directory E, but D's record lists E *)
C10_Witness ==
    /\ status = "not_installed"
    /\ cmd.arg = "E"
    /\ "D" \in DOMAIN Modules
    /\ InSeq("E", Modules["D"].dependencies)
    /\ drip_toml = startFile

(* C11: a remove deletes no directory and no record but those of the name  *)
(* it is given: every other directory and every other key of modules stays.*)
C11_RemoveNoCascade ==
    [][(ncmds' = ncmds + 1 /\ cmd'.op = "remove") =>
          /\ DOMAIN dp_modules \ {cmd'.arg} \subseteq DOMAIN dp_modules'
          /\ \A n \in DOMAIN dp_modules \ {cmd'.arg} : dp_modules'[n] = dp_modules[n]
          /\ DOMAIN Modules \ {cmd'.arg} \subseteq DOMAIN drip_toml'.modules]_vars

(* B was removed: A, whose record lists B, and D, which came as B's        *)
(* dependency, are still there                                             *)
C11_Witness ==
    /\ status = "removed"
    /\ cmd.arg = "B"
    /\ "A" \in DOMAIN startFile.modules
    /\ InSeq("B", startFile.modules["A"].dependencies)
    /\ "A" \in DOMAIN Modules
    /\ {"A", "D"} \subseteq DOMAIN dp_modules
    /\ dp_modules["D"].source = UD

(* C12: while a module stays installed, the source its record shows is the *)
(* locator it was installed from, whatever locator a later install names   *)
(* it by.                                                                  *)
C12_SourceImmutable ==
    \A n \in DOMAIN Modules \cap DOMAIN dp_modules :
        Modules[n].source = dp_modules[n].source

(* C13: between commands, no clone having failed since the project was    *)
(* made, a module has a directory exactly if it has a record.              *)
C13_DiskManifestConsistent ==
    (status # "running" /\ ~fetchFailed) => DOMAIN dp_modules = DOMAIN Modules

(* C14: a call does not extend its module's dependencies list with a child *)
(* whose recursion ended in the cycle error (a child whose name is on the  *)
(* call's own stack).                                                      *)
C14_OnlySuccessfulChildren ==
    \A k \in 1..Len(frames) :
        LET f == frames[k] IN
        f.pc # "enter" =>
            \A j \in 1..(f.i - 1) :
                (/\ f.deps[j].source # None
                 /\ InSeq(module_name_of(f.deps[j].source), f.stack)
                 /\ InSeq(f.deps[j].key, f.data.modules[f.module_name].dependencies))
                => /\ f.module_name \in DOMAIN startFile.modules
                   /\ InSeq(f.deps[j].key, startFile.modules[f.module_name].dependencies)

CycleReported == \E k \in 1..Len(out) : out[k] # CloneErrorLine

(* C16: a reported cycle does not end the install: the call that reported  *)
(* it returns to its caller, the install ends in failure only by a failed  *)
(* clone, and when it returns every dependency declared by an entered      *)
(* module was processed.                                                   *)
C16_CycleNonFatal ==
    /\ [](CycleReported =>
            /\ (status = "exited" => out[Len(out)] = CloneErrorLine)
            /\ (status = "returned" =>
                   \A n \in visited : Declared(n) \subseteq visited \cap DOMAIN dp_modules))
    /\ [][(status = "running" /\ out' # out /\ out'[Len(out')] # CloneErrorLine) =>
              /\ status' = "running"
              /\ frames' = Front(frames)
              /\ frames'[Len(frames')].pc = "called"]_vars

(* c/A on a fresh project: the cycle was reported at C's first dependency, *)
(* then C's next dependency D was cloned and the install returned          *)
C16_Witness ==
    /\ status = "returned"
    /\ out = <<"Error: Circular dependency detected: A -> B -> C -> A">>
    /\ entered = <<"A", "B", "C", "D">>
    /\ Count(fetchCount, "D") = 1
    /\ dp_modules["D"].source = UD2
    /\ dp_modules["C"].source = CC

(* C17: the name a call appends to its module's dependencies list after a  *)
(* child call is the canonical name of that dependency's locator.          *)
C17_CanonicalDependencyNames ==
    [][(status = "running" /\ Top.pc = "called" /\ frames' # frames) =>
          LET f == Top
              g == frames'[Len(frames')]
          IN Deps(g.data, f.module_name) \ Deps(f.data, f.module_name)
                 \subseteq {module_name_of(f.deps[f.i].source)}]_vars

(* the version a record shows for a clone of that branch *)
VersionOf(branch) == IF branch = None THEN "main" ELSE branch

(* C18: while a module stays installed, the version its record shows is    *)
(* the one it was cloned at, the one of the first reference to its name;   *)
(* a later reference with another version changes neither.                 *)
C18_FirstVersionWins ==
    \A n \in DOMAIN Modules \cap DOMAIN dp_modules :
        Modules[n].version = VersionOf(dp_modules[n].branch)

(* the canonical names of the dependencies with a source that the          *)
(* drip.toml of the installed module n declares, in document order         *)
DeclaredSeq(n) ==
    LET ms == ModuleDrip(n).modules
        withSource == SelectSeq(ms, LAMBDA d : d.source # None)
    IN [k \in 1..Len(withSource) |-> module_name_of(withSource[k].source)]

(* the keys of those dependencies, in document order *)
DeclaredKeys(n) ==
    LET ms == ModuleDrip(n).modules
        withSource == SelectSeq(ms, LAMBDA d : d.source # None)
    IN [k \in 1..Len(withSource) |-> withSource[k].key]

RECURSIVE PreOrder(_, _, _)
(* depth-first pre-order over the installed modules: acc extended by the   *)
(* walk of the names of todo, one after the other, a name being walked     *)
(* (itself, then its dependencies in document order) unless it is in acc;  *)
(* fuel bounds the recursion                                               *)
PreOrder(todo, acc, fuel) ==
    IF todo = <<>> \/ fuel = 0 THEN acc
    ELSE IF InSeq(Head(todo), acc) THEN PreOrder(Tail(todo), acc, fuel - 1)
    ELSE PreOrder(Tail(todo),
                  PreOrder(DeclaredSeq(Head(todo)), Append(acc, Head(todo)), fuel - 1),
                  fuel - 1)

RECURSIVE Extended(_, _)
(* list followed by the names of more that it lacks, in their order *)
Extended(list, more) ==
    IF more = <<>> THEN list
    ELSE Extended(IF InSeq(Head(more), list) THEN list ELSE Append(list, Head(more)),
                  Tail(more))

(* the dependencies list of n when the command started *)
StartList(n) ==
    IF n \in DOMAIN startFile.modules THEN startFile.modules[n].dependencies ELSE <<>>

(* C19: the modules are entered in depth-first pre-order, dependencies in  *)
(* the order of the module's drip.toml, a call waiting for its child's     *)
(* whole subtree; the root's dependencies list is extended in that order.  *)
C19_ProcessingOrder ==
    /\ \A k \in 1..(Len(frames) - 1) :
          /\ frames[k].pc = "called"
          /\ frames[k + 1].module_name =
                 module_name_of(frames[k].deps[frames[k].i].source)
    /\ status = "returned" =>
          LET root == module_name_of(cmd.arg) IN
          /\ entered = PreOrder(<<root>>, <<>>, 20)
          /\ Modules[root].dependencies = Extended(StartList(root), DeclaredKeys(root))

(* the diamond on a fresh project: A, B, D, C *)
C19_Witness ==
    /\ status = "returned"
    /\ cmd.arg = UA
    /\ startFile.modules = <<>>
    /\ entered = <<"A", "B", "D", "C">>
    /\ Modules["A"].dependencies = <<"B", "C">>

(* the drip.toml that the installed module of that name holds; a module   *)
(* that is not installed shows no dependencies                             *)
ManifestOf(name) ==
    IF name \in DOMAIN dp_modules THEN ModuleDrip(name)
    ELSE [has |-> FALSE, modules |-> <<>>]

RECURSIVE CycleFrom(_, _, _)
(* some path of dependencies with a source, starting at repo_url after     *)
(* path, comes back to a canonical name already on it                      *)
CycleFrom(repo_url, path, fuel) ==
    LET name == module_name_of(repo_url)
        ms == ManifestOf(name).modules
    IN \/ InSeq(name, path)
       \/ /\ fuel > 0
          /\ \E k \in 1..Len(ms) :
                /\ ms[k].source # None
                /\ CycleFrom(ms[k].source, Append(path, name), fuel - 1)

(* the dependency graph reachable from the root of the command has a cycle *)
HasCycle == CycleFrom(cmd.arg, <<>>, 8)

=============================================================================
